---- MODULE Spec2Model ----
(***************************************************************************)
(* Model of karaoke_shared/pipeline_utils.py: the status store (Redis      *)
(* hashes "file:<filename>"), the retry counters (Redis strings            *)
(* "<stage>_retries:<filename>"), the bounded auto-retry executor          *)
(* handle_auto_retry, the Redis-stream helpers and clean_string.           *)
(*                                                                         *)
(* A Redis hash is a function from its present field names to strings; a   *)
(* key with no field does not exist.  An optional value (a Python None, an *)
(* absent Redis string) is the empty tuple <<>>, a present one is <<v>>.   *)
(* Where the characters of a filename matter it is the sequence of its     *)
(* characters, elsewhere an opaque string.                                 *)
(***************************************************************************)
EXTENDS Integers, Sequences, FiniteSets, TLC

VARIABLES
    rec,        \* filename -> hash stored under "file:<filename>"
    cnt,        \* <<stage, filename>> -> value stored under "<stage>_retries:<filename>"
    run,        \* the frame of the current handle_auto_retry call
    obs,        \* what the caller and the outside world saw of that call
    clr,        \* the frame of the current clear_file_error call
    inc,        \* worker -> frame of its current increment_retry call
    incHist,    \* counter key -> values the completed increment_retry calls returned
    stream,     \* topic -> the messages of the stream, the id of a message its position
    groups,     \* <<topic, group>> -> None, or the group's last-delivered id and pending sets
    handed,     \* <<topic, group>> -> the ids XREADGROUP handed out, in order
    got,        \* <<topic, group, consumer>> -> the ids consume returned to its caller
    lastCall,   \* what the last consume call claimed and what it returned
    lastPublish,\* the arguments of the last publish call and whether its XADD was accepted
    escaped,    \* the operations out of which an exception reached the caller
    lastSet,    \* the arguments of the last set_file_status call made with any arguments
    san         \* a string handed to clean_string, and what came back

storeVars == <<rec, cnt>>
retryVars == <<run, obs>>
clearVars == <<clr>>
counterVars == <<inc, incHist>>
callVars == <<lastSet, san>>
busVars == <<stream, groups, handed, got, lastCall, lastPublish, escaped>>
vars == <<rec, cnt, run, obs, clr, inc, incHist, stream, groups, handed, got, lastCall,
          lastPublish, escaped, lastSet, san>>

\* ------------------------------------------------------------------ bounds
\* largest max_retries a caller passes in the model
MaxRetriesArg == 3

\* ------------------------------------------------------------ value spaces
Files == {"a.mp3", "b.mp3"}
\* the stage names clear_file_error iterates over
Stages == {"metadata", "splitter", "packager", "organizer"}
CounterKeys == Stages \X Files
\* messages of the exceptions the stage work function raises ("" is Exception())
ErrMsgs == {"", "boom"}
\* readings of datetime.datetime.now().isoformat()
Timestamps == {"t1", "t2"}

None == <<>>
Some(v) == <<v>>
EmptyHash == [k \in {} |-> ""]

\* Python truthiness of an optional string / optional dict argument
TruthyStr(o) == o # None /\ o[1] # ""
TruthyDict(o) == o # None /\ DOMAIN o[1] # {}

\* ------------------------------------------------------- Redis commands
\* HSET key field value [field value ...]: overwrite the given fields, keep the rest
HSet(h, mapping) ==
    [k \in DOMAIN h \cup DOMAIN mapping |-> IF k \in DOMAIN mapping THEN mapping[k] ELSE h[k]]
\* HDEL key field
HDel(h, field) == [k \in DOMAIN h \ {field} |-> h[k]]
\* dict.get(field, default) on the result of HGETALL
HashGet(h, field, default) == IF field \in DOMAIN h THEN h[field] ELSE default

\* ------------------------------------------------------------ status store
\* a set_file_status that forgets the error field
set_file_status_drops_error(db, filename, status, error, extra, ok) ==
    IF ok THEN [db EXCEPT ![filename] = HSet(@, [status |-> status])] ELSE db

\* a set_file_status that replaces the whole hash by the fields it was given
set_file_status_replaces(db, filename, status, error, extra, ok) ==
    LET v1 == [status |-> status]
        v2 == IF TruthyStr(error) THEN HSet(v1, [error |-> error[1]]) ELSE v1
        value == IF TruthyDict(extra) THEN HSet(v2, extra[1]) ELSE v2
    IN  IF ok THEN [db EXCEPT ![filename] = value] ELSE db

\* set_file_status: one HSET of {"status": status} plus error (if truthy) plus extra
\* (if truthy); ok = FALSE is a backend error, logged and swallowed
set_file_status(db, filename, status, error, extra, ok) ==
    LET v1 == [status |-> status]
        v2 == IF TruthyStr(error) THEN HSet(v1, [error |-> error[1]]) ELSE v1
        value == IF TruthyDict(extra) THEN HSet(v2, extra[1]) ELSE v2
    IN  IF ok THEN [db EXCEPT ![filename] = HSet(@, value)] ELSE db

set_file_error(db, filename, error, ok) ==
    set_file_status(db, filename, "error", Some(error), None, ok)

\* a get_file_status that reports a missing status field as the empty string
get_file_status_no_default(db, filename, ok) ==
    [filename |-> filename,
     status |-> HashGet(db[filename], "status", ""),
     last_error |-> HashGet(db[filename], "error", "")]

\* get_file_status: HGETALL, then defaults; a backend error yields the degraded record
get_file_status(db, filename, ok) ==
    IF ok
    THEN [filename |-> filename,
          status |-> HashGet(db[filename], "status", "unknown"),
          last_error |-> HashGet(db[filename], "error", "")]
    ELSE [filename |-> filename, status |-> "unknown", last_error |-> "backend error"]

\* ---------------------------------------------------------- retry counters
\* get_retry_count: int(GET key or 0), 0 on any exception
get_retry_count(c, stage, filename, ok) ==
    IF ok /\ c[<<stage, filename>>] # None THEN c[<<stage, filename>>][1] ELSE 0

\* the SET of increment_retry: store the value computed from the earlier read
set_retry(c, stage, filename, value, ok) ==
    IF ok THEN [c EXCEPT ![<<stage, filename>>] = Some(value)] ELSE c

\* a reset_retry that deletes nothing
reset_retry_noop(c, stage, filename, ok) == c

\* a reset_retry that deletes the counters of every stage of the file
reset_retry_every_stage(c, stage, filename, ok) ==
    IF ok THEN [k \in DOMAIN c |-> IF k[2] = filename THEN None ELSE c[k]] ELSE c

\* reset_retry: DEL key, exceptions swallowed
reset_retry(c, stage, filename, ok) ==
    IF ok THEN [c EXCEPT ![<<stage, filename>>] = None] ELSE c

\* the frames of the operations that are not running
Idle == [pc |-> "idle", stage |-> "metadata", filename |-> "a.mp3", max_retries |-> 0,
         notify_fail |-> FALSE, attempt |-> 0, e |-> None, timestamp |-> "t1"]
NoObs == [log |-> <<>>, outcome |-> "none", value |-> None, raised |-> None,
          backendOk |-> TRUE, resetOk |-> TRUE, cnt0 |-> 0, rec0 |-> EmptyHash,
          store0 |-> <<>>]
ClearIdle == [pc |-> "idle", filename |-> "a.mp3", i |-> 1, ok |-> TRUE,
              interfered |-> FALSE, wasError |-> FALSE, hadAll |-> FALSE]
IncIdle == [pc |-> "idle", stage |-> "metadata", filename |-> "a.mp3", cnt |-> 0,
            ok |-> TRUE, pre |-> 0]
\* the worker processes that share the backend
Workers == {"w1", "w2"}

\* ------------------------------------------------------------- stream bus
STREAM_QUEUED == "stream:queued"
\* the topics, group names and consumer names the workers pass
Topics == {STREAM_QUEUED}
Groups == {"metadata", "audit"}
Consumers == {"c1", "c2"}
GroupKeys == Topics \X Groups
ConsumerKeys == Topics \X Groups \X Consumers
\* redis.Redis(host=REDIS_HOST, port=REDIS_PORT, decode_responses=True)
DecodeResponses == TRUE

NoConsume == [count |-> 0, claimed |-> <<>>, returned |-> <<>>]
NoPublish == [topic |-> STREAM_QUEUED, filename |-> "", ok |-> FALSE]

NoSet == [filename |-> <<>>, status |-> "", error |-> None, extra |-> None,
          ok |-> FALSE, absent |-> FALSE]
NoSan == [s |-> <<>>, out |-> None, again |-> None]

\* no operation is running
NoCall ==
    /\ run = Idle
    /\ obs = NoObs
    /\ clr = ClearIdle
    /\ inc = [w \in Workers |-> IncIdle]
    /\ incHist = [k \in CounterKeys |-> <<>>]
    /\ lastSet = NoSet

\* no stream and no consumer group exists yet
BusEmpty ==
    /\ stream = [t \in Topics |-> <<>>]
    /\ groups = [tg \in GroupKeys |-> None]
    /\ handed = [tg \in GroupKeys |-> <<>>]
    /\ got = [tgc \in ConsumerKeys |-> <<>>]
    /\ lastCall = NoConsume
    /\ lastPublish = NoPublish
    /\ escaped = {}

\* ----------------------------------------------------------- retry executor
\* f"{timestamp}\n{e}\n{tb}": the traceback text ends with the exception's message
Detail(timestamp, msg) == timestamp \o "\n" \o msg \o "\n" \o "Traceback: " \o msg

\* the exception raised, and the value returned, by the n-th invocation of func
Exc(n, msg) == [n |-> n, msg |-> msg]
Res(n) == [n |-> n, value |-> "result"]


Count(log, ev) == Cardinality({i \in 1..Len(log) : log[i] = ev})

\* def handle_auto_retry(stage, filename, func, max_retries=3, retry_delay=5, notify_fail=True)
handle_auto_retry_call(stage, filename, max_retries, notify_fail) ==
    /\ UNCHANGED <<clearVars, counterVars, busVars, callVars>>
    /\ run.pc = "idle"
    /\ run' = [Idle EXCEPT !.pc = "loop", !.stage = stage, !.filename = filename,
                           !.max_retries = max_retries, !.notify_fail = notify_fail]
    /\ obs' = [NoObs EXCEPT !.cnt0 = get_retry_count(cnt, stage, filename, TRUE),
                            !.rec0 = rec[filename], !.store0 = <<rec, cnt>>]
    /\ UNCHANGED storeVars

\* for attempt in range(1, max_retries + 1): try: result = func()
handle_auto_retry_func ==
    /\ UNCHANGED <<clearVars, counterVars, busVars, callVars>>
    /\ run.pc = "loop"
    /\ run.attempt < run.max_retries
    /\ \/ /\ run' = [run EXCEPT !.attempt = @ + 1, !.pc = "reset"]
          /\ obs' = [obs EXCEPT !.log = Append(@, "func_ok")]
       \/ \E msg \in ErrMsgs :
          /\ run' = [run EXCEPT !.attempt = @ + 1, !.pc = "increment",
                                !.e = Some(Exc(run.attempt + 1, msg))]
          /\ obs' = [obs EXCEPT !.log = Append(@, "func_fail")]
    /\ UNCHANGED storeVars

\* reset_retry(stage, filename); return result
handle_auto_retry_return ==
    /\ UNCHANGED <<clearVars, counterVars, busVars, callVars>>
    /\ run.pc = "reset"
    /\ \E ok \in BOOLEAN :
        /\ cnt' = reset_retry(cnt, run.stage, run.filename, ok)
        /\ obs' = [obs EXCEPT !.log = Append(@, "return"), !.outcome = "returned",
                              !.value = Some(Res(run.attempt)),
                              !.backendOk = @ /\ ok, !.resetOk = ok]
    /\ run' = [run EXCEPT !.pc = "done"]
    /\ UNCHANGED rec

\* except Exception as e: retries = increment_retry(stage, filename)
handle_auto_retry_increment ==
    /\ UNCHANGED <<clearVars, counterVars, busVars, callVars>>
    /\ run.pc = "increment"
    /\ \E okGet \in BOOLEAN, okSet \in BOOLEAN :
        /\ cnt' = set_retry(cnt, run.stage, run.filename,
                            get_retry_count(cnt, run.stage, run.filename, okGet) + 1, okSet)
        /\ obs' = [obs EXCEPT !.log = Append(@, "increment"),
                              !.backendOk = @ /\ okGet /\ okSet]
    /\ run' = [run EXCEPT !.pc = "set_error"]
    /\ UNCHANGED rec

\* timestamp = ...now().isoformat(); set_file_error(filename, f"{timestamp}\n{e}\n{tb}")
handle_auto_retry_set_error ==
    /\ UNCHANGED <<clearVars, counterVars, busVars, callVars>>
    /\ run.pc = "set_error"
    /\ \E timestamp \in Timestamps, ok \in BOOLEAN :
        /\ rec' = set_file_error(rec, run.filename, Detail(timestamp, run.e[1].msg), ok)
        /\ run' = [run EXCEPT !.pc = "after", !.timestamp = timestamp]
        /\ obs' = [obs EXCEPT !.log = Append(@, "set_error"), !.backendOk = @ /\ ok]
    /\ UNCHANGED cnt

\* if attempt < max_retries: time.sleep(retry_delay)
handle_auto_retry_sleep ==
    /\ UNCHANGED <<clearVars, counterVars, busVars, callVars>>
    /\ run.pc = "after"
    /\ run.attempt < run.max_retries
    /\ run' = [run EXCEPT !.pc = "loop"]
    /\ obs' = [obs EXCEPT !.log = Append(@, "sleep")]
    /\ UNCHANGED storeVars

\* a handle_auto_retry that notifies after every failed attempt
handle_auto_retry_notify_always ==
    /\ UNCHANGED <<clearVars, counterVars, busVars, callVars>>
    /\ run.pc = "after"
    /\ run.notify_fail
    /\ run' = [run EXCEPT !.pc = IF run.attempt < run.max_retries THEN "loop" ELSE "raise"]
    /\ obs' = [obs EXCEPT !.log = Append(@, "notify")]
    /\ UNCHANGED storeVars

\* elif notify_fail: notify_all(...)       (the channels swallow their own errors)
handle_auto_retry_notify ==
    /\ UNCHANGED <<clearVars, counterVars, busVars, callVars>>
    /\ run.pc = "after"
    /\ ~(run.attempt < run.max_retries)
    /\ run.notify_fail
    /\ run' = [run EXCEPT !.pc = "raise"]
    /\ obs' = [obs EXCEPT !.log = Append(@, "notify")]
    /\ UNCHANGED storeVars

\* neither branch of the if/elif is taken
handle_auto_retry_no_notify ==
    /\ UNCHANGED <<clearVars, counterVars, busVars, callVars>>
    /\ run.pc = "after"
    /\ ~(run.attempt < run.max_retries)
    /\ ~run.notify_fail
    /\ run' = [run EXCEPT !.pc = "raise"]
    /\ UNCHANGED <<obs, storeVars>>

\* if attempt == max_retries: raise
handle_auto_retry_raise ==
    /\ UNCHANGED <<clearVars, counterVars, busVars, callVars>>
    /\ run.pc = "raise"
    /\ run.attempt = run.max_retries
    /\ run' = [run EXCEPT !.pc = "done"]
    /\ obs' = [obs EXCEPT !.log = Append(@, "raise"), !.outcome = "raised",
                          !.raised = run.e]
    /\ UNCHANGED storeVars

\* range(1, max_retries + 1) is exhausted without a return or a raise: the function
\* falls off its end and returns None
handle_auto_retry_fall_through ==
    /\ UNCHANGED <<clearVars, counterVars, busVars, callVars>>
    /\ run.pc = "loop"
    /\ ~(run.attempt < run.max_retries)
    /\ run' = [run EXCEPT !.pc = "done"]
    /\ obs' = [obs EXCEPT !.outcome = "returned", !.value = None]
    /\ UNCHANGED storeVars

\* states the store can be in when a worker calls handle_auto_retry
RetryInitRecs ==
    { [f \in Files |-> EmptyHash],
      [f \in Files |-> [status |-> "processing"]],
      [f \in Files |-> [status |-> "error", error |-> Detail("t1", "old")]] }
RetryInitCnts == { [k \in CounterKeys |-> None], [k \in CounterKeys |-> Some(2)] }

RetryInit ==
    /\ rec \in RetryInitRecs
    /\ cnt \in RetryInitCnts
    /\ NoCall
    /\ san = NoSan
    /\ BusEmpty

RetryNext ==
    \/ \E stage \in Stages, filename \in Files, max_retries \in 0..MaxRetriesArg,
          notify_fail \in BOOLEAN :
          handle_auto_retry_call(stage, filename, max_retries, notify_fail)
    \/ handle_auto_retry_func
    \/ handle_auto_retry_return
    \/ handle_auto_retry_increment
    \/ handle_auto_retry_set_error
    \/ handle_auto_retry_sleep
    \/ handle_auto_retry_notify
    \/ handle_auto_retry_no_notify
    \/ handle_auto_retry_raise
    \/ handle_auto_retry_fall_through

SpecRetry == RetryInit /\ [][RetryNext]_vars

\* ------------------------------------------------- status store, concurrently
\* the filenames, statuses and error texts the workers of this specification pass
StoreFiles == {"a.mp3"}
Statuses == {"queued", "processing", "done", "error"}
ErrorTexts == {"bad"}
\* largest value a retry counter takes in the model
MaxCounter == 2

\* a stage list that forgets the organizer
StageList_without_organizer == <<"metadata", "splitter", "packager">>

\* for stage in ["metadata", "splitter", "packager", "organizer"]
StageList == <<"metadata", "splitter", "packager", "organizer">>

\* a write by another worker to a key of filename while clear_file_error(filename) runs
Interfere(filename, wrote) ==
    IF wrote /\ clr.pc # "idle" /\ clr.filename = filename
    THEN [clr EXCEPT !.interfered = TRUE]
    ELSE clr

\* a worker calls set_file_status(filename, status) or set_file_error(filename, error)
set_file_status_call(filename, status, error) ==
    /\ \E ok \in BOOLEAN :
        /\ rec' = set_file_status(rec, filename, status, error, None, ok)
        /\ clr' = Interfere(filename, ok)
    /\ UNCHANGED <<cnt, retryVars, callVars, counterVars, busVars>>

\* a worker calls increment_retry(stage, filename)
increment_retry_call(stage, filename) ==
    /\ get_retry_count(cnt, stage, filename, TRUE) < MaxCounter
    /\ \E okGet \in BOOLEAN, okSet \in BOOLEAN :
        /\ cnt' = set_retry(cnt, stage, filename,
                            get_retry_count(cnt, stage, filename, okGet) + 1, okSet)
        /\ clr' = Interfere(filename, okSet)
    /\ UNCHANGED <<rec, retryVars, callVars, counterVars, busVars>>

\* def clear_file_error(filename): key = f"file:{filename}"
clear_file_error_call(filename) ==
    /\ clr.pc = "idle"
    /\ clr' = [ClearIdle EXCEPT !.pc = "hset", !.filename = filename,
                                !.wasError = (HashGet(rec[filename], "status", "") = "error"
                                              /\ "error" \in DOMAIN rec[filename]),
                                !.hadAll = \A st \in Stages : cnt[<<st, filename>>] # None]
    /\ UNCHANGED <<storeVars, retryVars, callVars, counterVars, busVars>>

\* redis_client.hset(key, "status", "queued"); an exception ends the call (logged)
clear_file_error_hset ==
    /\ clr.pc = "hset"
    /\ \/ /\ rec' = [rec EXCEPT ![clr.filename] = HSet(@, [status |-> "queued"])]
          /\ clr' = [clr EXCEPT !.pc = "delete", !.i = 1]
       \/ /\ clr' = [clr EXCEPT !.pc = "done", !.ok = FALSE]
          /\ UNCHANGED rec
    /\ UNCHANGED <<cnt, retryVars, callVars, counterVars, busVars>>

\* redis_client.delete(f"{stage}_retries:{filename}") for the i-th stage of the list
clear_file_error_delete ==
    /\ clr.pc = "delete"
    /\ \/ /\ cnt' = [cnt EXCEPT ![<<StageList[clr.i], clr.filename>>] = None]
          /\ clr' = IF clr.i < Len(StageList)
                    THEN [clr EXCEPT !.i = @ + 1]
                    ELSE [clr EXCEPT !.pc = "hdel"]
       \/ /\ clr' = [clr EXCEPT !.pc = "done", !.ok = FALSE]
          /\ UNCHANGED cnt
    /\ UNCHANGED <<rec, retryVars, callVars, counterVars, busVars>>

\* redis_client.hdel(key, "error")
clear_file_error_hdel ==
    /\ clr.pc = "hdel"
    /\ \/ /\ rec' = [rec EXCEPT ![clr.filename] = HDel(@, "error")]
          /\ clr' = [clr EXCEPT !.pc = "done"]
       \/ /\ clr' = [clr EXCEPT !.pc = "done", !.ok = FALSE]
          /\ UNCHANGED rec
    /\ UNCHANGED <<cnt, retryVars, callVars, counterVars, busVars>>

\* clear_file_error returns None to its caller
clear_file_error_return ==
    /\ clr.pc = "done"
    /\ clr' = ClearIdle
    /\ UNCHANGED <<storeVars, retryVars, callVars, counterVars, busVars>>

StoreInit ==
    /\ rec = [f \in Files |-> EmptyHash]
    /\ cnt = [k \in CounterKeys |-> None]
    /\ NoCall
    /\ san = NoSan
    /\ BusEmpty

StoreNext ==
    \/ \E filename \in StoreFiles, status \in Statuses \ {"error"} :
          set_file_status_call(filename, status, None)
    \/ \E filename \in StoreFiles, error \in ErrorTexts :
          set_file_status_call(filename, "error", Some(error))
    \/ \E stage \in Stages, filename \in StoreFiles : increment_retry_call(stage, filename)
    \/ \E filename \in StoreFiles : clear_file_error_call(filename)
    \/ clear_file_error_hset
    \/ clear_file_error_delete
    \/ clear_file_error_hdel
    \/ clear_file_error_return

SpecStore == StoreInit /\ [][StoreNext]_vars

\* ---------------------------------------------- retry counters, concurrently
\* number of increment_retry calls the workers make in the model
MaxIncrements == 3

IncStarted ==
    Cardinality({ki \in CounterKeys \X (1..MaxIncrements) : ki[2] <= Len(incHist[ki[1]])})
      + Cardinality({w \in Workers : inc[w].pc # "idle"})

\* cnt = get_retry_count(stage, filename) + 1
increment_retry_get(w, stage, filename) ==
    /\ inc[w].pc = "idle"
    /\ IncStarted < MaxIncrements
    /\ \E ok \in BOOLEAN :
        inc' = [inc EXCEPT ![w] = [pc |-> "set", stage |-> stage, filename |-> filename,
                                   cnt |-> get_retry_count(cnt, stage, filename, ok) + 1,
                                   ok |-> ok,
                                   pre |-> get_retry_count(cnt, stage, filename, ok)]]
    /\ UNCHANGED <<rec, cnt, incHist, retryVars, callVars, clearVars, busVars>>

\* redis_client.set(f"{stage}_retries:{filename}", cnt); return cnt
increment_retry_set(w) ==
    /\ inc[w].pc = "set"
    /\ \E ok \in BOOLEAN :
        /\ cnt' = set_retry(cnt, inc[w].stage, inc[w].filename, inc[w].cnt, ok)
        /\ incHist' = [incHist EXCEPT ![<<inc[w].stage, inc[w].filename>>] =
                          Append(@, [value |-> inc[w].cnt, ok |-> inc[w].ok /\ ok,
                                     pre |-> inc[w].pre,
                                     changed |-> cnt' # cnt])]
    /\ inc' = [inc EXCEPT ![w] = IncIdle]
    /\ UNCHANGED <<rec, retryVars, callVars, clearVars, busVars>>

CounterNext ==
    \/ \E w \in Workers, stage \in Stages, filename \in Files :
          increment_retry_get(w, stage, filename)
    \/ \E w \in Workers : increment_retry_set(w)

SpecCounter == StoreInit /\ [][CounterNext]_vars

\* ------------------------------------------------- stream bus, operations
\* number of messages published to a topic in the model
MaxPublished == 2
\* largest count a caller passes to consume
MaxBatch == 2
\* the block arguments (milliseconds; 0 blocks until a message arrives)
BlockArgs == {0, 1000}
\* the ways the backend answers XGROUP CREATE
CreateOutcomes == {"ok", "ResponseError", "ConnectionError"}

Min(a, b) == IF a < b THEN a ELSE b
Range(seq) == {seq[i] : i \in 1..Len(seq)}
\* the ids first..last, in order
Ids(first, last) == [i \in 1..(last - first + 1) |-> first + i - 1]

\* a field name as the client hands it back: a str when the client decodes the
\* responses, bytes otherwise
ReplyKey(name) == [type |-> IF DecodeResponses THEN "str" ELSE "bytes", text |-> name]
\* the data dict of one message in the reply of xreadgroup
ReplyData(fields) ==
    [k \in {ReplyKey(name) : name \in DOMAIN fields} |-> fields[k.text]]
\* k.decode(): bytes have it, str raises AttributeError
Decodable(k) == k.type = "bytes"
\* {k.decode(): v for k, v in data.items()}
DecodedData(data) ==
    [name \in {k.text : k \in DOMAIN data} |->
        data[CHOOSE k \in DOMAIN data : k.text = name]]

\* what consume returns for the messages msgs = <<<<id, data>>, ...>> of the reply: the
\* list of (msg_id, decoded dict), or [] when the comprehension raises
consume_result(msgs) ==
    IF \A i \in 1..Len(msgs) : \A k \in DOMAIN msgs[i][2] : Decodable(k)
    THEN [i \in 1..Len(msgs) |-> <<msgs[i][1], DecodedData(msgs[i][2])>>]
    ELSE <<>>

\* def ensure_consumer_group(stream_key, group_name): XGROUP CREATE ... $ MKSTREAM;
\* only redis.exceptions.ResponseError is caught
ensure_consumer_group(topic, group, outcome) ==
    /\ \/ /\ outcome = "ok"
          /\ groups[<<topic, group>>] = None
          /\ groups' = [groups EXCEPT ![<<topic, group>>] =
                           Some([last |-> Len(stream[topic]),
                                 pel |-> [c \in Consumers |-> {}]])]
          /\ UNCHANGED escaped
       \/ /\ outcome = "ok"
          /\ groups[<<topic, group>>] # None      \* BUSYGROUP: ignored
          /\ UNCHANGED <<groups, escaped>>
       \/ /\ outcome = "ResponseError"            \* logged
          /\ UNCHANGED <<groups, escaped>>
       \/ /\ outcome = "ConnectionError"          \* not a ResponseError: propagates
          /\ escaped' = escaped \cup {"ensure_consumer_group"}
          /\ UNCHANGED groups
    /\ UNCHANGED <<stream, handed, got, lastCall, lastPublish, storeVars, retryVars, callVars,
                   clearVars, counterVars>>

\* a publish that puts the new message in front of the stream
publish_prepends(topic, filename, ok) ==
    /\ Len(stream[topic]) < MaxPublished
    /\ stream' = IF ok THEN [stream EXCEPT ![topic] = <<[filename |-> filename]>> \o @]
                 ELSE stream
    /\ lastPublish' = [topic |-> topic, filename |-> filename, ok |-> ok]
    /\ UNCHANGED <<groups, handed, got, lastCall, escaped, storeVars, retryVars, callVars,
                   clearVars, counterVars>>

\* def publish(stream_key, filename): XADD stream_key * filename <filename>; an
\* exception of XADD is logged and publish returns None either way
publish(topic, filename, ok) ==
    /\ Len(stream[topic]) < MaxPublished
    /\ stream' = IF ok THEN [stream EXCEPT ![topic] = Append(@, [filename |-> filename])]
                 ELSE stream
    /\ lastPublish' = [topic |-> topic, filename |-> filename, ok |-> ok]
    /\ UNCHANGED <<groups, handed, got, lastCall, escaped, storeVars, retryVars, callVars,
                   clearVars, counterVars>>

\* def consume(stream_key, group_name, consumer_name, block=0, count=1):
\* XREADGROUP GROUP group consumer [BLOCK block] COUNT count STREAMS stream_key >
consume(topic, group, consumer, block, count, ok) ==
    LET tg == <<topic, group>>
        g == groups[tg][1]
        n == Min(count, Len(stream[topic]) - g.last)
        claimed == Ids(g.last + 1, g.last + n)
        msgs == [i \in 1..n |-> <<claimed[i], ReplyData(stream[topic][claimed[i]])>>]
        returned == consume_result(msgs)
    IN
    /\ \/ /\ ~ok \/ groups[tg] = None             \* exception: logged, return []
          /\ lastCall' = [count |-> count, claimed |-> <<>>, returned |-> <<>>]
          /\ UNCHANGED <<groups, handed, got>>
       \/ /\ ok /\ groups[tg] # None
          /\ n = 0 /\ block > 0                   \* timed out: entries is empty
          /\ lastCall' = [count |-> count, claimed |-> <<>>, returned |-> <<>>]
          /\ UNCHANGED <<groups, handed, got>>
       \/ /\ ok /\ groups[tg] # None
          /\ n > 0
          /\ groups' = [groups EXCEPT ![tg] =
                           Some([last |-> g.last + n,
                                 pel |-> [g.pel EXCEPT ![consumer] = @ \cup Range(claimed)]])]
          /\ handed' = [handed EXCEPT ![tg] = @ \o claimed]
          /\ got' = [got EXCEPT ![<<topic, group, consumer>>] =
                        @ \o [i \in 1..Len(returned) |-> returned[i][1]]]
          /\ lastCall' = [count |-> count, claimed |-> claimed, returned |-> returned]
    /\ UNCHANGED <<stream, lastPublish, escaped, storeVars, retryVars, callVars, clearVars,
                   counterVars>>

BusInit ==
    /\ rec = [f \in Files |-> EmptyHash]
    /\ cnt = [k \in CounterKeys |-> None]
    /\ NoCall
    /\ san = NoSan
    /\ BusEmpty

BusNext ==
    \/ \E topic \in Topics, group \in Groups, outcome \in CreateOutcomes :
          ensure_consumer_group(topic, group, outcome)
    \/ \E topic \in Topics, filename \in Files, ok \in BOOLEAN :
          publish(topic, filename, ok)
    \/ \E topic \in Topics, group \in Groups, consumer \in Consumers,
          block \in BlockArgs, count \in 1..MaxBatch, ok \in BOOLEAN :
          consume(topic, group, consumer, block, count, ok)

SpecBus == BusInit /\ [][BusNext]_vars

\* every worker runs a polling loop: a consume call that the backend can serve is
\* eventually made, for every consumer of every group
BusFairness ==
    \A topic \in Topics, group \in Groups, consumer \in Consumers :
        WF_vars(\E block \in BlockArgs, count \in 1..MaxBatch :
                    consume(topic, group, consumer, block, count, TRUE))

FairSpecBus == BusInit /\ [][BusNext]_vars /\ BusFairness

\* ------------------------------------------------ strings as character lists
\* a Python str is the sequence of its characters, each a one-character string;
\* NUL stands for "\x00"
NUL == "^@"
Str_file == <<"f", "i", "l", "e", ":">>

\* str.replace(old, new): every non-overlapping occurrence, scanning from the left
RECURSIVE Replace(_, _, _)
Replace(s, old, new) ==
    IF Len(s) < Len(old) THEN s
    ELSE IF SubSeq(s, 1, Len(old)) = old
         THEN new \o Replace(SubSeq(s, Len(old) + 1, Len(s)), old, new)
         ELSE <<s[1]>> \o Replace(Tail(s), old, new)

\* ----------------------------------------- status calls with any arguments
\* the filenames, statuses, error texts and extra dicts the callers pass
StatusNames == {<<"a">>, Str_file \o <<"a">>}
StatusArgs == {"queued", "done", "error"}
ErrorArgs == {None, Some(""), Some("bad")}
ExtraArgs == {None, Some([artist |-> "x"]), Some([status |-> "done"])}

\* the Redis key of a record, f"file:{filename}"
FileKey(filename) == Str_file \o filename

\* a list of the members of a set, in the order KEYS happens to reply
RECURSIVE KeysReply(_)
KeysReply(S) ==
    IF S = {} THEN <<>>
    ELSE LET k == CHOOSE x \in S : TRUE IN <<k>> \o KeysReply(S \ {k})

\* the loop of get_files_by_status over the reply of KEYS
RECURSIVE get_files_by_status_loop(_, _, _)
get_files_by_status_loop(db, keys, status) ==
    IF keys = <<>> THEN <<>>
    ELSE LET key == keys[1]
             data == db[SubSeq(key, Len(Str_file) + 1, Len(key))]     \* HGETALL key
             rest == get_files_by_status_loop(db, Tail(keys), status)
         IN  IF HashGet(data, "status", "") = status
             THEN <<Replace(key, Str_file, <<>>)>> \o rest
             ELSE rest

\* def get_files_by_status(status): KEYS "file:*", then HGETALL of every key; a
\* backend error of KEYS yields []
get_files_by_status(db, status, ok) ==
    IF ok
    THEN get_files_by_status_loop(
             db, KeysReply({FileKey(f) : f \in {g \in DOMAIN db : db[g] # EmptyHash}}), status)
    ELSE <<>>

\* set_file_status(filename, status, error=None, extra=None) called with any arguments
set_file_status_any(filename, status, error, extra, ok) ==
    /\ rec' = set_file_status(rec, filename, status, error, extra, ok)
    /\ lastSet' = [filename |-> filename, status |-> status, error |-> error,
                   extra |-> extra, ok |-> ok, absent |-> rec[filename] = EmptyHash]
    /\ UNCHANGED <<cnt, san, retryVars, clearVars, counterVars, busVars>>

StatusInit ==
    /\ rec = [f \in StatusNames |-> EmptyHash]
    /\ cnt = [k \in CounterKeys |-> Some(1)]
    /\ NoCall
    /\ san = NoSan
    /\ BusEmpty

StatusNext ==
    \E filename \in StatusNames, status \in StatusArgs, error \in ErrorArgs,
       extra \in ExtraArgs, ok \in BOOLEAN :
        set_file_status_any(filename, status, error, extra, ok)

SpecStatus == StatusInit /\ [][StatusNext]_vars

\* ------------------------------------------------------------- clean_string
\* longest string handed to clean_string in the model
MaxStrLen == 3
\* the characters of those strings: the null byte, the path separators, whitespace
\* and an ordinary character
Chars == {NUL, "/", "\\", " ", "\t", "a"}
Strings == UNION {[1..n -> Chars] : n \in 0..MaxStrLen}
\* the characters str.strip() removes
Whitespace == {" ", "\t", "\n", "\r", "\f"}

RECURSIVE LStrip(_)
LStrip(s) == IF s # <<>> /\ s[1] \in Whitespace THEN LStrip(Tail(s)) ELSE s
RECURSIVE RStrip(_)
RStrip(s) ==
    IF s # <<>> /\ s[Len(s)] \in Whitespace THEN RStrip(SubSeq(s, 1, Len(s) - 1)) ELSE s
\* str.strip()
Strip(s) == RStrip(LStrip(s))

\* a clean_string that trims before it removes the null bytes
clean_string_strips_first(s) ==
    Replace(Replace(Replace(Strip(s), <<NUL>>, <<>>), <<"/">>, <<"-">>), <<"\\">>, <<"-">>)

\* return s.replace("\x00", "").replace("/", "-").replace("\\", "-").strip()
clean_string(s) ==
    Strip(Replace(Replace(Replace(s, <<NUL>>, <<>>), <<"/">>, <<"-">>), <<"\\">>, <<"-">>))

\* out = clean_string(s)
clean_string_call ==
    /\ san.out = None
    /\ san' = [san EXCEPT !.out = Some(clean_string(san.s))]
    /\ UNCHANGED <<lastSet, storeVars, retryVars, clearVars, counterVars, busVars>>

\* again = clean_string(out)
clean_string_again ==
    /\ san.out # None /\ san.again = None
    /\ san' = [san EXCEPT !.again = Some(clean_string(san.out[1]))]
    /\ UNCHANGED <<lastSet, storeVars, retryVars, clearVars, counterVars, busVars>>

CleanInit ==
    /\ rec = [f \in Files |-> EmptyHash]
    /\ cnt = [k \in CounterKeys |-> None]
    /\ NoCall
    /\ san \in {[s |-> s, out |-> None, again |-> None] : s \in Strings}
    /\ BusEmpty

CleanNext == clean_string_call \/ clean_string_again

SpecClean == CleanInit /\ [][CleanNext]_vars

\* ------------------------------------------------- calls with any filename
\* the filename arguments of the callers: one that clean_string leaves as it is and
\* one that it would change
NameArgs == {<<"a">>, <<" ", "a", "/", "b">>}

\* the operations that write a key or a message, called with the filename as given:
\* f"file:{filename}", f"{stage}_retries:{filename}" and {"filename": filename};
\* set_file_error, clear_file_error and handle_auto_retry build the same keys
NamesInit ==
    /\ rec = [f \in NameArgs |-> EmptyHash]
    /\ cnt = [k \in Stages \X NameArgs |-> None]
    /\ NoCall
    /\ san = NoSan
    /\ BusEmpty

NamesNext ==
    \/ \E filename \in NameArgs, ok \in BOOLEAN :
          set_file_status_any(filename, "queued", None, None, ok)
    \/ \E filename \in NameArgs : increment_retry_call("metadata", filename)
    \/ \E topic \in Topics, filename \in NameArgs, ok \in BOOLEAN :
          publish(topic, filename, ok)

SpecNames == NamesInit /\ [][NamesNext]_vars

\* -------------------------------------------------------------- properties
RunKey == <<run.stage, run.filename>>
Finished == run.pc = "done"
Failures == Count(obs.log, "func_fail")
Successes == Count(obs.log, "func_ok")
Notifies == Count(obs.log, "notify")
\* index of the first occurrence of ev in the log (0 when there is none)
FirstIndex(log, ev) ==
    IF \E i \in 1..Len(log) : log[i] = ev
    THEN CHOOSE i \in 1..Len(log) : log[i] = ev /\ \A j \in 1..(i - 1) : log[j] # ev
    ELSE 0

\* C1 (exhaustion): with max_retries = N >= 1, the backend available and func failing
\* on every invocation, a finished call has invoked func exactly N times, incremented
\* the retry counter N times (it reads its initial value plus N), written status=error
\* N times, the record holding the N-th failure's detail, and has raised the N-th
\* attempt's exception; it has returned nothing.
C1_Exhaustion ==
    (Finished /\ run.max_retries >= 1 /\ obs.backendOk /\ Successes = 0) =>
        /\ obs.outcome = "raised"
        /\ obs.value = None
        /\ Failures = run.max_retries
        /\ Count(obs.log, "increment") = run.max_retries
        /\ get_retry_count(cnt, run.stage, run.filename, TRUE) = obs.cnt0 + run.max_retries
        /\ Count(obs.log, "set_error") = run.max_retries
        /\ obs.raised # None
        /\ obs.raised[1].n = run.max_retries
        /\ rec[run.filename] =
             HSet(obs.rec0, [status |-> "error",
                             error |-> Detail(run.timestamp, obs.raised[1].msg)])
        /\ obs.log[Len(obs.log)] = "raise"

C1_Witness ==
    /\ Finished /\ run.max_retries = 3 /\ obs.backendOk /\ Successes = 0
    /\ obs.outcome = "raised" /\ obs.cnt0 = 2
    /\ cnt[RunKey] = Some(5)

\* C2 as stated (retry then success): a call whose func failed k < N times and then
\* succeeded returns the result of invocation k+1, has invoked func exactly k+1
\* times, and the retry counter is absent when it returns.
C2_Original ==
    (Finished /\ Successes >= 1) =>
        /\ obs.outcome = "returned"
        /\ obs.value = Some(Res(Failures + 1))
        /\ Successes = 1
        /\ Failures + 1 = run.attempt
        /\ Failures < run.max_retries
        /\ cnt[RunKey] = None

\* C2 amended: the same, the counter being absent provided the backend accepted
\* reset_retry's delete.
C2_RetryThenSuccess ==
    (Finished /\ Successes >= 1) =>
        /\ obs.outcome = "returned"
        /\ obs.value = Some(Res(Failures + 1))
        /\ Successes = 1
        /\ Failures + 1 = run.attempt
        /\ Failures < run.max_retries
        /\ obs.log[Len(obs.log)] = "return"
        /\ obs.log[Len(obs.log) - 1] = "func_ok"
        /\ obs.resetOk => cnt[RunKey] = None

C2_Witness ==
    /\ Finished /\ run.max_retries = 3 /\ Failures = 2 /\ Successes = 1
    /\ obs.outcome = "returned" /\ obs.resetOk /\ obs.cnt0 = 2
    /\ cnt[RunKey] = None

\* C3 (escalation exactly once): in a finished call notify_all was invoked once if the
\* final attempt failed and notify_fail is true, and not at all otherwise; at any
\* moment it has been invoked at most once, and when it has, all max_retries attempts
\* had failed, the step just before it was the set_file_error of the final failure
\* (whose detail the record holds if the backend accepted the writes), and nothing
\* but the raise follows it.
C3_EscalationOnce ==
    /\ Notifies <= 1
    /\ Finished =>
         Notifies = (IF obs.outcome = "raised" /\ run.notify_fail THEN 1 ELSE 0)
    /\ Finished /\ obs.outcome = "raised" =>
         /\ run.max_retries >= 1
         /\ Failures = run.max_retries
         /\ Successes = 0
    /\ Notifies = 1 =>
         LET i == FirstIndex(obs.log, "notify") IN
         /\ run.notify_fail
         /\ i > 1
         /\ obs.log[i - 1] = "set_error"
         /\ Count(SubSeq(obs.log, 1, i), "func_fail") = run.max_retries
         /\ Count(SubSeq(obs.log, 1, i), "set_error") = run.max_retries
         /\ Count(SubSeq(obs.log, 1, i), "func_ok") = 0
         /\ Count(SubSeq(obs.log, 1, i), "raise") = 0
         /\ \A j \in (i + 1)..Len(obs.log) : obs.log[j] = "raise"
         /\ (i = Len(obs.log)) => (obs.outcome = "none" /\ run.pc = "raise")
         /\ (i = Len(obs.log) /\ obs.backendOk) =>
              /\ HashGet(rec[run.filename], "status", "unknown") = "error"
              /\ HashGet(rec[run.filename], "error", "") =
                   Detail(run.timestamp, run.e[1].msg)

C3_Witness ==
    /\ Finished /\ obs.outcome = "raised" /\ run.max_retries = 3 /\ Notifies = 1
    /\ Count(obs.log, "sleep") = 2

\* C7 as stated (error field invariant): in every state of the status store, between
\* the backend writes of one operation too, a FileRecord has an error field only if
\* its status is "error".
C7_ErrorOnlyWhenStatusError ==
    \A f \in Files :
        "error" \in DOMAIN rec[f] => HashGet(rec[f], "status", "unknown") = "error"

\* C8 (manual recovery): once clear_file_error(f) has completed with no backend error
\* and no other writer touched f's keys meanwhile, get_file_status(f) returns status
\* "queued" with an empty last_error and get_retry_count(stage, f) is 0 for every
\* stage of the pipeline.
C8_ManualRecovery ==
    (clr.pc = "done" /\ clr.ok /\ ~clr.interfered) =>
        /\ get_file_status(rec, clr.filename, TRUE) =
             [filename |-> clr.filename, status |-> "queued", last_error |-> ""]
        /\ \A stage \in Stages : get_retry_count(cnt, stage, clr.filename, TRUE) = 0

C8_Witness ==
    /\ clr.pc = "done" /\ clr.ok /\ ~clr.interfered
    /\ clr.wasError
    /\ clr.hadAll
    /\ get_file_status(rec, clr.filename, TRUE).status = "queued"

\* C9 as stated (atomic increment): when no increment_retry call is in flight, a
\* counter on which k calls completed without backend error holds its initial value
\* (absent, 0) plus k, and the k calls returned k distinct values.
C9_AtomicIncrement ==
    (\A w \in Workers : inc[w].pc = "idle") =>
        \A k \in CounterKeys :
            (\A i \in 1..Len(incHist[k]) : incHist[k][i].ok) =>
                /\ get_retry_count(cnt, k[1], k[2], TRUE) = Len(incHist[k])
                /\ \A i, j \in 1..Len(incHist[k]) :
                       i # j => incHist[k][i].value # incHist[k][j].value

\* C4 as stated (consume hands over what it claims): the messages the last consume
\* call moved into the consumer's pending set are exactly the messages it returned,
\* as (messageId, fields) pairs in publish order, at most count of them.
C4_ConsumeReturnsClaimed ==
    /\ Len(lastCall.returned) <= lastCall.count
    /\ Len(lastCall.returned) = Len(lastCall.claimed)
    /\ \A i \in 1..Len(lastCall.claimed) :
           /\ lastCall.returned[i][1] = lastCall.claimed[i]
           /\ \E t \in Topics : lastCall.returned[i][2] = stream[t][lastCall.claimed[i]]

\* C5 as stated (at-least-once): a message delivered to a consumer of a group and never
\* acknowledged is eventually handed out again by a later consume call of the group.
C5_AtLeastOnce ==
    \A tg \in GroupKeys : \A m \in 1..MaxPublished :
        (groups[tg] # None /\ \E c \in Consumers : m \in groups[tg][1].pel[c])
            ~> (Cardinality({i \in 1..Len(handed[tg]) : handed[tg][i] = m}) >= 2)

\* C6 as stated (competing consumers): every message the group has handed out was
\* returned by exactly one consume call, to one consumer of the group, and every
\* consumer received its messages in publish order.
C6_CompetingConsumers ==
    \A tg \in GroupKeys :
        /\ \A m \in Range(handed[tg]) :
               Cardinality({ci \in Consumers \X (1..MaxPublished) :
                               /\ ci[2] <= Len(got[<<tg[1], tg[2], ci[1]>>])
                               /\ got[<<tg[1], tg[2], ci[1]>>][ci[2]] = m}) = 1
        /\ \A c \in Consumers :
               \A i, j \in 1..Len(got[<<tg[1], tg[2], c>>]) :
                   i < j => got[<<tg[1], tg[2], c>>][i] < got[<<tg[1], tg[2], c>>][j]

\* C10 as stated (backend failures never propagate): no StatusStore, RetryCounter or
\* StreamBus operation lets an exception reach its caller, whatever the backend error.
C10_NothingEscapes == escaped = {}

\* a step in which a publish call returned, and the message it was given
PublishReturned == lastPublish' # lastPublish \/ stream' # stream
Appended(topic, filename) ==
    /\ stream'[topic] = Append(stream[topic], [filename |-> filename])
    /\ \A t \in Topics \ {topic} : stream'[t] = stream[t]

\* C11 as stated: whenever publish(topic, filename) returns, exactly one new message
\* carrying that filename is at the tail of the topic and the earlier messages are
\* unchanged and keep their positions
C11_Original ==
    [][PublishReturned => Appended(lastPublish'.topic, lastPublish'.filename)]_vars

\* C11: whenever publish(topic, filename) returns and the backend accepted its XADD,
\* exactly one new message carrying that filename is at the tail of the topic, and the
\* earlier messages are unchanged and keep their positions; when the backend refused
\* the XADD, publish returns all the same and the topic is unchanged
C11_PublishAppends ==
    [][PublishReturned =>
          IF lastPublish'.ok
          THEN Appended(lastPublish'.topic, lastPublish'.filename)
          ELSE stream' = stream]_vars
C11_Witness ==
    /\ lastPublish.ok
    /\ Len(stream[lastPublish.topic]) = 2
    /\ stream[lastPublish.topic][2].filename = lastPublish.filename
    /\ stream[lastPublish.topic][1].filename # lastPublish.filename

\* C12: with the backend available, right after set_file_status(f, s) with no error
\* argument on a filename that had no record, get_file_status(f) returns status s and
\* an empty last_error; get_file_status of a filename with no record returns status
\* "unknown" and an empty last_error
C12_StatusRoundTrip ==
    /\ (/\ lastSet.ok /\ lastSet.absent
        /\ lastSet.error = None /\ lastSet.extra = None)
       => get_file_status(rec, lastSet.filename, TRUE) =
              [filename |-> lastSet.filename, status |-> lastSet.status, last_error |-> ""]
    /\ \A f \in DOMAIN rec :
          rec[f] = EmptyHash
          => get_file_status(rec, f, TRUE) =
                 [filename |-> f, status |-> "unknown", last_error |-> ""]
C12_Witness ==
    /\ lastSet.ok /\ lastSet.absent /\ lastSet.error = None /\ lastSet.extra = None
    /\ lastSet.status = "done"
    /\ \E f \in DOMAIN rec : rec[f] = EmptyHash

\* a finished call whose func succeeded on its first invocation
FirstTrySuccess == Finished /\ Len(obs.log) >= 1 /\ obs.log[1] = "func_ok"
\* what the call left alone: the records, notify_all, sleep, the other counters
C13_Frame ==
    /\ rec = obs.store0[1]
    /\ Notifies = 0
    /\ Count(obs.log, "sleep") = 0
    /\ Count(obs.log, "set_error") = 0
    /\ \A k \in CounterKeys \ {RunKey} : cnt[k] = obs.store0[2][k]

\* C13 as stated: after a call whose func succeeded on the first invocation no record
\* was written, nothing was notified, nothing slept, the counter of (stage, filename)
\* is absent whatever it was before, and the other counters are unchanged
C13_Original ==
    FirstTrySuccess => (C13_Frame /\ cnt[RunKey] = None)

\* C13: the same, the counter of (stage, filename) being absent provided the backend
\* accepted reset_retry's delete, and keeping its earlier value when it did not
C13_SuccessPath ==
    FirstTrySuccess =>
        /\ C13_Frame
        /\ cnt[RunKey] = IF obs.resetOk THEN None ELSE obs.store0[2][RunKey]
C13_Witness ==
    /\ FirstTrySuccess /\ obs.resetOk
    /\ obs.log = <<"func_ok", "return">>
    /\ obs.store0[2][RunKey] = Some(2) /\ cnt[RunKey] = None
    /\ obs.store0[1][run.filename] # EmptyHash

\* a step in which the group tg came into being
GroupCreated(tg) == groups[tg] = None /\ groups'[tg] # None
\* every group the workers name exists: each ensure_consumer_group call is a later call
AllGroupsExist == \A tg \in GroupKeys : groups[tg] # None

\* C14: the call that creates a group puts it at the tail of the topic with nothing
\* pending and leaves the messages alone; from then on consume hands the group only
\* messages behind its cursor, which never moves back; and a later call for a group
\* that exists ends without an error reaching the caller
C14_EnsureIdempotent ==
    [][/\ \A tg \in GroupKeys :
             GroupCreated(tg) =>
                 /\ groups'[tg][1].last = Len(stream[tg[1]])
                 /\ \A c \in Consumers : groups'[tg][1].pel[c] = {}
                 /\ stream' = stream
       /\ \A tg \in GroupKeys :
             (groups[tg] # None) =>
                 /\ groups'[tg] # None
                 /\ groups'[tg][1].last >= groups[tg][1].last
                 /\ \A i \in Len(handed[tg]) + 1 .. Len(handed'[tg]) :
                        handed'[tg][i] > groups[tg][1].last
       /\ AllGroupsExist => escaped' = escaped]_vars

\* C15 as stated (increment under backend error): a completed increment_retry call
\* during which the backend failed returned the value get_retry_count had given it
\* (0 when the counter was absent or unreadable), not incremented, and its write left
\* the stored counter unchanged
C15_IncrementUnderError ==
    \A k \in CounterKeys :
        \A i \in 1..Len(incHist[k]) :
            ~incHist[k][i].ok =>
                /\ incHist[k][i].value = incHist[k][i].pre
                /\ ~incHist[k][i].changed

\* s without its null bytes and with "-" for each path separator
Substituted(s) ==
    LET kept == SelectSeq(s, LAMBDA c : c # NUL)
    IN  [i \in 1..Len(kept) |-> IF kept[i] \in {"/", "\\"} THEN "-" ELSE kept[i]]
\* t from its first to its last character that is not whitespace
Trimmed(t) ==
    LET solid == {i \in 1..Len(t) : t[i] \notin Whitespace}
    IN  IF solid = {} THEN <<>>
        ELSE SubSeq(t, CHOOSE i \in solid : \A j \in solid : i <= j,
                       CHOOSE i \in solid : \A j \in solid : i >= j)

\* C16: for every input string s, clean_string(s) holds no null byte, no "/" and no
\* "\", neither starts nor ends with whitespace, is s with the null bytes removed and
\* each path separator replaced by "-", then trimmed, and is left as it is by a second
\* clean_string; in particular clean_string("a/b\\c\x00 ") is "a-b-c"
C16_Sanitizer ==
    /\ san.out # None =>
          LET out == san.out[1] IN
          /\ \A i \in 1..Len(out) : out[i] \notin {NUL, "/", "\\"}
          /\ out # <<>> => (out[1] \notin Whitespace /\ out[Len(out)] \notin Whitespace)
          /\ out = Trimmed(Substituted(san.s))
    /\ san.again # None => san.again = san.out
    /\ clean_string(<<"a", "/", "b", "\\", "c", NUL, " ">>) = <<"a", "-", "b", "-", "c">>
C16_Witness ==
    /\ san.s = <<" ", NUL, "/">>
    /\ san.out = Some(<<"-">>)
    /\ san.again = Some(<<"-">>)

\* C17 as stated (keys are sanitized): the filename part of every stored record key
\* and retry-counter key, and the filename field of every published message, is a
\* fixed point of clean_string
C17_KeysSanitized ==
    /\ \A f \in DOMAIN rec : rec[f] # EmptyHash => clean_string(f) = f
    /\ \A k \in DOMAIN cnt : cnt[k] # None => clean_string(k[2]) = k[2]
    /\ \A t \in Topics : \A i \in 1..Len(stream[t]) :
          clean_string(stream[t][i].filename) = stream[t][i].filename

\* a step in which a set_file_status call returned; its extra argument as a dict
SetReturned == lastSet' # lastSet \/ rec' # rec
ExtraOf(call) == IF call.extra = None THEN EmptyHash ELSE call.extra[1]
\* the record of filename has the field with that value after the step
FieldIs(filename, field, value) ==
    field \in DOMAIN rec'[filename] /\ rec'[filename][field] = value
\* the step changed nothing but the fields named of the record of filename
OnlyFields(filename, fields) ==
    /\ DOMAIN rec'[filename] \subseteq DOMAIN rec[filename] \cup fields
    /\ \A k \in DOMAIN rec[filename] \ fields : FieldIs(filename, k, rec[filename][k])
    /\ \A g \in DOMAIN rec \ {filename} : rec'[g] = rec[g]
    /\ cnt' = cnt

\* C18 as stated: after set_file_status(f, s, e, E) the record of f has status s, has
\* error e if e was provided and has each key of E set; every other field of the
\* record, every other record and every retry counter is unchanged
C18_Original ==
    [][SetReturned =>
          LET call == lastSet'
              f == call.filename
          IN  /\ FieldIs(f, "status", call.status)
              /\ call.error # None => FieldIs(f, "error", call.error[1])
              /\ \A k \in DOMAIN ExtraOf(call) : FieldIs(f, k, ExtraOf(call)[k])
              /\ OnlyFields(f, {"status"} \cup DOMAIN ExtraOf(call)
                                 \cup IF call.error # None THEN {"error"} ELSE {})]_vars

\* C18: when the backend accepts the write, after set_file_status(f, s, e, E) the
\* record of f has each key of E set, has status s unless E has a key "status", and
\* has error e if e was provided, is not the empty string and E has no key "error";
\* every other field of the record (a stored error when e is absent or empty, the
\* extra keys not in E), every other record and every retry counter is unchanged.
\* When the backend refuses the write nothing is changed.
C18_SetFileStatusFrame ==
    [][SetReturned =>
          LET call == lastSet'
              f == call.filename
              given == call.error # None /\ call.error[1] # ""
          IN  IF call.ok
              THEN /\ \A k \in DOMAIN ExtraOf(call) : FieldIs(f, k, ExtraOf(call)[k])
                   /\ "status" \notin DOMAIN ExtraOf(call) => FieldIs(f, "status", call.status)
                   /\ (given /\ "error" \notin DOMAIN ExtraOf(call))
                          => FieldIs(f, "error", call.error[1])
                   /\ OnlyFields(f, {"status"} \cup DOMAIN ExtraOf(call)
                                      \cup IF given THEN {"error"} ELSE {})
              ELSE rec' = rec /\ cnt' = cnt]_vars
C18_Witness ==
    /\ lastSet.ok /\ ~lastSet.absent
    /\ lastSet.status = "queued" /\ lastSet.error = None /\ lastSet.extra = None
    /\ rec[lastSet.filename] = [status |-> "queued", error |-> "bad", artist |-> "x"]
    /\ \E g \in DOMAIN rec \ {lastSet.filename} : rec[g] # EmptyHash

\* how many times a filename is in the list get_files_by_status returned
Occurrences(out, filename) == Cardinality({i \in 1..Len(out) : out[i] = filename})

\* C19 as stated (listing by status): with the backend available and no call in
\* progress, get_files_by_status(s) returns exactly the filenames, as they were passed
\* to set_file_status and each once, whose record has status s
C19_ListingByStatus ==
    \A status \in StatusArgs :
        LET out == get_files_by_status(rec, status, TRUE) IN
        /\ \A i \in 1..Len(out) : out[i] \in DOMAIN rec
        /\ \A f \in DOMAIN rec :
              Occurrences(out, f) =
                  IF HashGet(rec[f], "status", "") = status THEN 1 ELSE 0

\* C20 as stated (result or failure, nothing else): for every max_retries, a finished
\* call has invoked func at least once and either returned the value of a successful
\* invocation or raised the exception of a failed one
C20_ResultOrFailure ==
    Finished =>
        /\ Failures + Successes >= 1
        /\ \/ /\ obs.outcome = "returned"
              /\ Successes >= 1
              /\ obs.value = Some(Res(run.attempt))
           \/ /\ obs.outcome = "raised"
              /\ Failures >= 1
              /\ obs.raised # None
====
